---- MODULE Spec2Model ----
(***************************************************************************)
(* The FileShare screen (src/src/pages/Index.tsx), its earlier variant     *)
(* (src/unnamed/part_000) and the getFiles server action                   *)
(* (src/unnamed/part_001), as a state machine over the remote data store,  *)
(* the object storage, the auth provider and each browser session's        *)
(* component state and in-flight asynchronous handlers.                    *)
(***************************************************************************)
EXTENDS Integers, Sequences, FiniteSets, TLC

(***************************************************************************)
(* Bounds of the model.                                                    *)
(***************************************************************************)
\* uploads started, over all sessions (one fresh storage key each).
MaxUploads == 1
\* handleShare invocations, over all sessions.
MaxShares == 2

\* Index.tsx line 104: the largest limit fetchFiles accepts.
MaxLimit == 100

Sessions == {"s1", "s2"}
Variants == {"Index", "part_000"}

(***************************************************************************)
(* Values.  A JavaScript null/undefined string is the empty string, a      *)
(* null id is 0, a null array is Null (<<>>) and a present one Some(a).    *)
(***************************************************************************)
Null == <<>>
Some(x) == <<x>>
\* `x || []`
OrEmpty(v) == IF v = Null THEN <<>> ELSE v[1]

NoUser == [id |-> "", email |-> ""]
\* u3 signs in by phone: User.email is optional in the auth provider's type.
AuthUsers ==
  { [id |-> "u1", email |-> "a@x"],
    [id |-> "u2", email |-> "b@x"],
    [id |-> "u3", email |-> ""] }

NoFile == [name |-> <<>>, type |-> ""]
LocalFiles ==
  { [name |-> <<"B", ".", "a">>, type |-> "pdf"] }

EmailInputs == {"a@x", "b@x"}

NoToast == <<"", "">>

(***************************************************************************)
(* Text: file names and URL parameters are sequences of characters.        *)
(***************************************************************************)
Digits == {"0", "1", "2", "5"}

DigitVal(c) ==
  CASE c = "0" -> 0 [] c = "1" -> 1 [] c = "2" -> 2 [] c = "5" -> 5

\* ilike compares case-insensitively.
Lower(c) ==
  CASE c = "A" -> "a" [] c = "B" -> "b" [] OTHER -> c

\* the order of characters under which text columns sort.
CharRank(c) ==
  CASE c = "." -> 1 [] c = "A" -> 2 [] c = "B" -> 3
    [] c = "a" -> 4 [] c = "b" -> 5 [] OTHER -> 6

\* the order of the type / user_id column values.
StrRank(t) ==
  CASE t = "" -> 0 [] t = "pdf" -> 1 [] t = "txt" -> 2
    [] t = "u1" -> 3 [] t = "u2" -> 4 [] t = "u3" -> 5 [] OTHER -> 6

RECURSIVE SeqLess(_, _)
\* a < b in lexicographic order
SeqLess(a, b) ==
  IF b = <<>> THEN FALSE
  ELSE IF a = <<>> THEN TRUE
  ELSE IF CharRank(Head(a)) # CharRank(Head(b))
       THEN CharRank(Head(a)) < CharRank(Head(b))
  ELSE SeqLess(Tail(a), Tail(b))

LowerSeq(a) == [i \in 1..Len(a) |-> Lower(a[i])]

\* filename ILIKE '%pattern%' (the pattern holds no wildcard of its own)
ILike(name, pattern) ==
  \E i \in 0..(Len(name) - Len(pattern)) :
     LowerSeq(SubSeq(name, i + 1, i + Len(pattern))) = LowerSeq(pattern)

Range(f) == {f[i] : i \in DOMAIN f}

\* selectedFile.name.split(".").pop()
FileExt(name) ==
  LET dots == {i \in 1..Len(name) : name[i] = "."}
      last == IF dots = {} THEN 0
              ELSE CHOOSE i \in dots : \A j \in dots : j <= i
  IN SubSeq(name, last + 1, Len(name))

(***************************************************************************)
(* parseInt: an optional sign, then the longest run of decimal digits;     *)
(* NaN when there is none.  (The inputs hold no white space and no 0x.)    *)
(***************************************************************************)
NaN == [kind |-> "NaN", n |-> 0]
Undefined == [kind |-> "undefined", n |-> 0]
Num(n) == [kind |-> "num", n |-> n]

RECURSIVE DigitRun(_)
\* the longest prefix of digits of str
DigitRun(str) ==
  IF str = <<>> \/ Head(str) \notin Digits THEN <<>>
  ELSE <<Head(str)>> \o DigitRun(Tail(str))

RECURSIVE Decimal(_)
Decimal(ds) ==
  IF ds = <<>> THEN 0
  ELSE 10 * Decimal(SubSeq(ds, 1, Len(ds) - 1)) + DigitVal(ds[Len(ds)])

parseInt(str) ==
  LET neg == str # <<>> /\ Head(str) = "-"
      body == IF str # <<>> /\ Head(str) \in {"-", "+"} THEN Tail(str) ELSE str
      ds == DigitRun(body)
  IN IF ds = <<>> THEN NaN
     ELSE Num(IF neg THEN 0 - Decimal(ds) ELSE Decimal(ds))

(***************************************************************************)
(* The files table, the query fetchFiles builds and what the store returns *)
(***************************************************************************)
\* supabase.storage.from("files").getPublicUrl(fileName)
PublicUrl(key) == <<"public", key>>

Row(id, owner, name, type, key, fullname, shared) ==
  [id |-> id, user_id |-> owner, filename |-> name, type |-> type,
   extension |-> FileExt(name), public_url |-> PublicUrl(key),
   fullname |-> fullname, created_at |-> id, shared_with |-> shared]

\* the rows present when the sessions open (each refers to a stored object)
InitTable ==
  << Row(1, "u1", <<"a", ".", "b">>, "txt", <<1, <<"b">>>>, "a@x",
         Some(<<"b@x">>)),
     Row(2, "u2", <<"A", "b">>, "pdf", <<2, <<"A", "b">>>>, "b@x", Null) >>

QueryTable ==
  InitTable \o
  << Row(3, "u1", <<"B", ".", "a">>, "pdf", <<3, <<"a">>>>, "a@x",
         Some(<<>>)),
     Row(4, "u3", <<"b">>, "pdf", <<4, <<"b">>>>, "Unknown",
         Some(<<"a@x", "a@x">>)) >>

StoredKeys(tbl) == {tbl[i].public_url[2] : i \in DOMAIN tbl}

\* URL parameters: searchParams.get(k), null and "" alike being absent
Url(query, type, sort, limit) ==
  [query |-> query, type |-> type, sort |-> sort, limit |-> limit]

DefaultUrl == Url(<<>>, "", "", <<>>)

\* the URLs a session of the two-session specification may visit
URLS ==
  { DefaultUrl,
    Url(<<"a", ".">>, "", "user_id", <<"2">>) }

SortStrings == {"", "created_at", "filename", "type", "user_id", "bogus"}

LimitStrings ==
  { <<>>, <<"0">>, <<"1">>, <<"2">>, <<"5", "0">>, <<"1", "0", "0">>,
    <<"1", "0", "1">>, <<"-", "1">>, <<"-", "0">>, <<"+", "2">>, <<"a">>,
    <<"2", "a">>, <<"-">>, <<"0", "0", "1">> }

\* a session visits each of the URLS at most once
MaxNav == Cardinality(URLS) - 1

\* the URLs of the query specification
AllURLS ==
  { Url(<<>>, "", srt, lim) : srt \in SortStrings, lim \in LimitStrings }
  \cup { Url(q, t, "", <<>>) : q \in {<<>>, <<"A">>, <<"b", ".">>},
                               t \in {"", "pdf", "doc"} }

\* Index.tsx lines 59-69: the parameters the effect passes to fetchFiles
EffectParams(url) ==
  [fileType |-> url.type,
   searchQuery |-> url.query,
   sortBy |-> IF url.sort = "" THEN "created_at" ELSE url.sort,
   limit |-> IF url.limit = <<>> THEN Undefined ELSE parseInt(url.limit)]

\* fetchFiles() without arguments: the parameter defaults of line 80
DefaultParams ==
  [fileType |-> "", searchQuery |-> <<>>, sortBy |-> "created_at",
   limit |-> Undefined]

allowedSortColumns == {"created_at", "filename", "type"}

finalSortByUnchecked(sortBy) == sortBy

finalSortBy(sortBy) ==
  IF sortBy \in allowedSortColumns THEN sortBy ELSE "created_at"

appliedLimitClamped(limit) ==
  IF limit.kind = "num" /\ limit.n > 0
  THEN (IF limit.n <= MaxLimit THEN limit.n ELSE MaxLimit)
  ELSE 0

\* `limit && limit > 0 && limit <= 100`: the limit applied, 0 for none
appliedLimit(limit) ==
  IF limit.kind = "num" /\ limit.n # 0 /\ limit.n > 0 /\ limit.n <= MaxLimit
  THEN limit.n
  ELSE 0

\* Index.tsx fetchFiles up to its await: the queries it issues (none when
\* the user id or email is missing)
fetchFiles(u, params) ==
  IF u.id = "" \/ u.email = "" THEN {}
  ELSE { [params |-> params,
          query |-> [scoped |-> TRUE, id |-> u.id, email |-> u.email,
                     type |-> params.fileType, search |-> params.searchQuery,
                     sort |-> finalSortBy(params.sortBy),
                     limit |-> appliedLimit(params.limit)]] }

\* part_000 fetchFiles: select("*").order("created_at"), whoever the user is
fetchFilesLegacy ==
  { [params |-> DefaultParams,
     query |-> [scoped |-> FALSE, id |-> "", email |-> "",
                type |-> "", search |-> <<>>,
                sort |-> "created_at", limit |-> 0]] }

fetchFilesOf(v, u, params) ==
  IF v = "Index" THEN fetchFiles(u, params) ELSE fetchFilesLegacy

\* user_id.eq.<id> or shared_with.cs.{<email>}
Visible(id, email, r) ==
  \/ r.user_id = id
  \/ r.shared_with # Null /\ email \in Range(r.shared_with[1])

Matches(q, r) ==
  /\ q.scoped => Visible(q.id, q.email, r)
  /\ q.type # "" => r.type = q.type
  /\ q.search # <<>> => ILike(r.filename, q.search)

\* the columns the store can order by (any other name is an error)
SortColumns == {"created_at", "filename", "type", "user_id"}

\* a comes strictly before b in descending order of col
Before(a, b, col) ==
  CASE col = "created_at" -> a.created_at > b.created_at
    [] col = "filename" -> SeqLess(b.filename, a.filename)
    [] col = "type" -> StrRank(a.type) > StrRank(b.type)
    [] col = "user_id" -> StrRank(a.user_id) > StrRank(b.user_id)

IsOrdered(rows, col) ==
  \A i, j \in 1..Len(rows) : i < j => ~Before(rows[j], rows[i], col)

\* every answer the store may give: the matching rows in descending order
\* of q.sort (ties in any order), cut to q.limit
QueryResults(q, tbl) ==
  LET M == {i \in 1..Len(tbl) : Matches(q, tbl[i])}
      n == Cardinality(M)
      orders == { p \in [1..n -> M] :
                    /\ \A i, j \in 1..n : i < j => p[i] # p[j]
                    /\ IsOrdered([i \in 1..n |-> tbl[p[i]]], q.sort) }
      k == IF q.limit = 0 \/ q.limit > n THEN n ELSE q.limit
  IN IF q.sort \notin SortColumns THEN {}
     ELSE { [i \in 1..k |-> tbl[p[i]]] : p \in orders }

(***************************************************************************)
(* State                                                                   *)
(***************************************************************************)
VARIABLES
  variant,          \* which screen the sessions run: Index.tsx or part_000
  auth,             \* the auth provider's signed-in user of each session
  table,            \* the files table, in insertion order
  version,          \* history: the number of writes to each row's shared_with
  storage,          \* the keys of the objects in the storage bucket
  nextKey,          \* the number of storage keys generated so far
  route,            \* "index" while the screen is mounted, "auth" after
  mounted,          \* whether the mount effect has run
  searchParams,     \* the URL's query parameters
  navCount,         \* history: URL changes so far
  user, files, selectedFile, shareEmail, selectedFileId, isUploading,
  toast,            \* the last notification raised
  loaded,           \* history: the request whose answer files holds
  checkUserPending, \* a checkUser() awaiting supabase.auth.getUser()
  fetching,         \* the fetchFiles queries awaiting their answer
  upload,           \* the handleUpload in flight
  share,            \* the handleShare in flight
  shareCount,       \* history: handleShare invocations so far
  lastShare,        \* history: the last handleShare that succeeded
  getFilesResult    \* what the last getFiles call returned

store == <<table, version, storage, nextKey>>
component ==
  <<user, files, selectedFile, shareEmail, selectedFileId, isUploading, loaded>>
vars ==
  <<variant, auth, table, version, storage, nextKey, route, mounted,
    searchParams, navCount, user, files, selectedFile, shareEmail,
    selectedFileId, isUploading, toast, loaded, checkUserPending, fetching,
    upload, share, shareCount, lastShare, getFilesResult>>

NoQuery ==
  [scoped |-> TRUE, id |-> "", email |-> "", type |-> "", search |-> <<>>,
   sort |-> "created_at", limit |-> 0]
NoRequest == [params |-> DefaultParams, query |-> NoQuery, issued |-> FALSE]
Request(op) == [params |-> op.params, query |-> op.query, issued |-> TRUE]

IdleUpload == [pc |-> "idle", file |-> NoFile, key |-> <<0, <<>>>>, user |-> NoUser]
IdleShare ==
  [pc |-> "idle", fileId |-> 0, email |-> "", user |-> NoUser,
   updated |-> <<>>, readVer |-> 0]
NoShare ==
  [fileId |-> 0, email |-> "", updated |-> <<>>, readVer |-> 0, writeVer |-> 0]
NoResult == [status |-> "none", scoped |-> TRUE, id |-> "", email |-> "", data |-> <<>>]

\* crypto.randomUUID(): a key no object and no earlier call has
uuid(n) == Len(QueryTable) + n + 1

\* the list keeps the rows by their id (the key of each rendered row)
Ids(data) == [i \in 1..Len(data) |-> data[i].id]

\* a state setter acts only while the component is mounted
Set(var, s, val) ==
  IF route[s] = "index" THEN [var EXCEPT ![s] = val] ELSE var

InitWith(tbl, variants, urls, open) ==
  /\ variant \in variants
  /\ auth \in [Sessions -> AuthUsers \cup {NoUser}]
  /\ \A s \in Sessions : s \notin open => auth[s] = NoUser
  /\ auth["s1"] \in {NoUser} \cup {u \in AuthUsers : u.id \in {"u1", "u3"}}
  /\ auth["s2"] \in {NoUser} \cup {u \in AuthUsers : u.id = "u2"}
  /\ table = tbl
  /\ version = [i \in DOMAIN tbl |-> 0]
  /\ storage = StoredKeys(tbl)
  /\ nextKey = 0
  /\ route = [s \in Sessions |-> IF s \in open THEN "index" ELSE "auth"]
  /\ mounted = [s \in Sessions |-> FALSE]
  /\ searchParams \in [Sessions -> urls]
  /\ \A s \in Sessions : s \notin open => searchParams[s] = DefaultUrl
  /\ navCount = [s \in Sessions |-> 0]
  /\ user = [s \in Sessions |-> NoUser]
  /\ files = [s \in Sessions |-> <<>>]
  /\ selectedFile = [s \in Sessions |-> NoFile]
  /\ shareEmail = [s \in Sessions |-> ""]
  /\ selectedFileId = [s \in Sessions |-> 0]
  /\ isUploading = [s \in Sessions |-> FALSE]
  /\ toast = [s \in Sessions |-> NoToast]
  /\ loaded = [s \in Sessions |-> NoRequest]
  /\ checkUserPending = [s \in Sessions |-> FALSE]
  /\ fetching = [s \in Sessions |-> {}]
  /\ upload = [s \in Sessions |-> IdleUpload]
  /\ share = [s \in Sessions |-> IdleShare]
  /\ shareCount = 0
  /\ lastShare = [s \in Sessions |-> NoShare]
  /\ getFilesResult = NoResult

\* one session opens the screen, on a store that already holds two files
Init == InitWith(InitTable, Variants, {DefaultUrl}, {"s1"})

(***************************************************************************)
(* The auth gate and the effect                                            *)
(***************************************************************************)
\* the effect's body: checkUser(), then fetchFiles with the URL's parameters
\* and the user of the render the effect belongs to
useEffect(s, url) ==
  /\ checkUserPending' = [checkUserPending EXCEPT ![s] = TRUE]
  /\ fetching' = [fetching EXCEPT ![s] =
        @ \cup fetchFilesOf(variant, user[s], EffectParams(url))]

\* the effect after the first render
Mount(s) ==
  /\ route[s] = "index"
  /\ ~mounted[s]
  /\ mounted' = [mounted EXCEPT ![s] = TRUE]
  /\ useEffect(s, searchParams[s])
  /\ UNCHANGED <<variant, auth, store, route, searchParams, navCount,
                 component, toast, upload, share, shareCount, lastShare,
                 getFilesResult>>

\* the URL's parameters change: Index.tsx runs the effect again (part_000
\* does not read them)
SearchParamsChange(s, url) ==
  /\ route[s] = "index"
  /\ mounted[s]
  /\ variant = "Index"
  /\ url # searchParams[s]
  /\ navCount[s] < MaxNav
  /\ navCount' = [navCount EXCEPT ![s] = @ + 1]
  /\ searchParams' = [searchParams EXCEPT ![s] = url]
  /\ useEffect(s, url)
  /\ UNCHANGED <<variant, auth, store, route, mounted, component, toast,
                 upload, share, shareCount, lastShare, getFilesResult>>

\* navigate("/auth"): the screen unmounts and its state is gone
Unmount(s) ==
  /\ route' = [route EXCEPT ![s] = "auth"]
  /\ user' = [user EXCEPT ![s] = NoUser]
  /\ files' = [files EXCEPT ![s] = <<>>]
  /\ selectedFile' = [selectedFile EXCEPT ![s] = NoFile]
  /\ shareEmail' = [shareEmail EXCEPT ![s] = ""]
  /\ selectedFileId' = [selectedFileId EXCEPT ![s] = 0]
  /\ isUploading' = [isUploading EXCEPT ![s] = FALSE]
  /\ loaded' = [loaded EXCEPT ![s] = NoRequest]

\* checkUser after its await: no user (or a failed call) redirects
CheckUserResolve(s) ==
  /\ checkUserPending[s]
  /\ checkUserPending' = [checkUserPending EXCEPT ![s] = FALSE]
  /\ \E got \in {auth[s], NoUser} :
       IF got = NoUser
       THEN Unmount(s)
       ELSE /\ user' = Set(user, s, got)
            /\ UNCHANGED <<route, files, selectedFile, shareEmail,
                           selectedFileId, isUploading, loaded>>
  /\ UNCHANGED <<variant, auth, store, mounted, searchParams, navCount,
                 toast, fetching, upload, share, shareCount, lastShare,
                 getFilesResult>>

\* handleSignOut: the SIGNED_OUT event reaches the subscription of the effect
handleSignOut(s) ==
  /\ route[s] = "index"
  /\ mounted[s]
  /\ auth' = [auth EXCEPT ![s] = NoUser]
  /\ Unmount(s)
  /\ UNCHANGED <<variant, store, mounted, searchParams, navCount, toast,
                 checkUserPending, fetching, upload, share, shareCount,
                 lastShare, getFilesResult>>

\* fetchFiles after its await: an error is notified and the list kept
FetchResolve(s, op) ==
  /\ op \in fetching[s]
  /\ fetching' = [fetching EXCEPT ![s] = @ \ {op}]
  /\ \/ /\ toast' = [toast EXCEPT ![s] = <<"Error fetching files", "">>]
        /\ UNCHANGED <<files, loaded>>
     \/ \E data \in QueryResults(op.query, table) :
          /\ files' = Set(files, s, Ids(data))
          /\ loaded' = Set(loaded, s, Request(op))
          /\ UNCHANGED toast
  /\ UNCHANGED <<variant, auth, store, route, mounted, searchParams,
                 navCount, user, selectedFile, shareEmail, selectedFileId,
                 isUploading, checkUserPending, upload, share, shareCount,
                 lastShare, getFilesResult>>

(***************************************************************************)
(* Upload                                                                  *)
(***************************************************************************)
\* <Input type="file" onChange={handleFileChange}>
handleFileChange(s, f) ==
  /\ route[s] = "index"
  /\ selectedFile[s] # f
  /\ selectedFile' = [selectedFile EXCEPT ![s] = f]
  /\ UNCHANGED <<variant, auth, store, route, mounted, searchParams,
                 navCount, user, files, shareEmail, selectedFileId,
                 isUploading, toast, loaded, checkUserPending, fetching,
                 upload, share, shareCount, lastShare, getFilesResult>>

\* the Upload button (disabled without a file or while uploading), up to
\* the await of the storage write
handleUpload(s) ==
  /\ route[s] = "index"
  /\ selectedFile[s] # NoFile /\ ~isUploading[s]
  /\ user[s] # NoUser
  /\ nextKey < MaxUploads
  /\ isUploading' = [isUploading EXCEPT ![s] = TRUE]
  /\ nextKey' = nextKey + 1
  /\ upload' = [upload EXCEPT ![s] =
        [pc |-> "storage", file |-> selectedFile[s],
         key |-> <<uuid(nextKey), FileExt(selectedFile[s].name)>>,
         user |-> user[s]]]
  /\ UNCHANGED <<variant, auth, table, version, storage, route, mounted,
                 searchParams, navCount, user, files, selectedFile,
                 shareEmail, selectedFileId, toast, loaded, checkUserPending,
                 fetching, share, shareCount, lastShare, getFilesResult>>

\* the catch and finally blocks of handleUpload
UploadFailed(s) ==
  /\ toast' = [toast EXCEPT ![s] = <<"Error uploading file", "">>]
  /\ isUploading' = Set(isUploading, s, FALSE)
  /\ upload' = [upload EXCEPT ![s] = IdleUpload]

\* what handleUpload does when the storage write has failed
AfterStorageErrorInserting(s) ==
  /\ upload' = [upload EXCEPT ![s].pc = "insert"]
  /\ UNCHANGED <<storage, isUploading, toast>>

AfterStorageError(s) ==
  /\ UploadFailed(s)
  /\ UNCHANGED storage

\* the storage write answers
UploadStorageResolve(s) ==
  /\ upload[s].pc = "storage"
  /\ \/ AfterStorageError(s)
     \/ /\ storage' = storage \cup {upload[s].key}
        /\ upload' = [upload EXCEPT ![s].pc = "insert"]
        /\ UNCHANGED <<isUploading, toast>>
  /\ UNCHANGED <<variant, auth, table, version, nextKey, route, mounted,
                 searchParams, navCount, user, files, selectedFile,
                 shareEmail, selectedFileId, loaded, checkUserPending,
                 fetching, share, shareCount, lastShare, getFilesResult>>

\* the metadata row handleUpload inserts
UploadRow(s) ==
  [id |-> Len(table) + 1,
   user_id |-> upload[s].user.id,
   filename |-> upload[s].file.name,
   type |-> upload[s].file.type,
   extension |-> upload[s].key[2],
   public_url |-> PublicUrl(upload[s].key),
   fullname |-> IF upload[s].user.email = "" THEN "Unknown"
                ELSE upload[s].user.email,
   created_at |-> Len(table) + 1,
   shared_with |-> Null]

\* the finally block when it is left out of the error path
InsertErrorKeepsBusy(s) ==
  /\ toast' = [toast EXCEPT ![s] = <<"Error uploading file", "">>]
  /\ upload' = [upload EXCEPT ![s] = IdleUpload]
  /\ UNCHANGED <<table, version, selectedFile, fetching, isUploading>>

AfterInsertError(s) ==
  /\ UploadFailed(s)
  /\ UNCHANGED <<table, version, selectedFile, fetching>>

\* the metadata insert answers
UploadInsertResolve(s) ==
  /\ upload[s].pc = "insert"
  /\ \/ AfterInsertError(s)
     \/ /\ table' = Append(table, UploadRow(s))
        /\ version' = Append(version, 0)
        /\ toast' = [toast EXCEPT ![s] = <<"Success", "File uploaded successfully">>]
        /\ selectedFile' = Set(selectedFile, s, NoFile)
        /\ fetching' = [fetching EXCEPT ![s] =
              @ \cup fetchFilesOf(variant, upload[s].user, DefaultParams)]
        /\ isUploading' = Set(isUploading, s, FALSE)
        /\ upload' = [upload EXCEPT ![s] = IdleUpload]
  /\ UNCHANGED <<variant, auth, storage, nextKey, route, mounted,
                 searchParams, navCount, user, files, shareEmail,
                 selectedFileId, loaded, checkUserPending, share,
                 shareCount, lastShare, getFilesResult>>

(***************************************************************************)
(* Share                                                                   *)
(***************************************************************************)
\* a row's Share button: setSelectedFileId(file.id)
SelectRow(s, i) ==
  /\ route[s] = "index"
  /\ i \in 1..Len(files[s])
  /\ selectedFileId[s] # files[s][i]
  /\ selectedFileId' = [selectedFileId EXCEPT ![s] = files[s][i]]
  /\ UNCHANGED <<variant, auth, store, route, mounted, searchParams,
                 navCount, user, files, selectedFile, shareEmail,
                 isUploading, toast, loaded, checkUserPending, fetching,
                 upload, share, shareCount, lastShare, getFilesResult>>

\* the share-email input, rendered once a share target is selected
ShareEmailChange(s, e) ==
  /\ route[s] = "index"
  /\ selectedFileId[s] # 0
  /\ shareEmail[s] # e
  /\ shareEmail' = [shareEmail EXCEPT ![s] = e]
  /\ UNCHANGED <<variant, auth, store, route, mounted, searchParams,
                 navCount, user, files, selectedFile, selectedFileId,
                 isUploading, toast, loaded, checkUserPending, fetching,
                 upload, share, shareCount, lastShare, getFilesResult>>

\* the catch block of handleShare
ShareFailedClearing(s) ==
  /\ toast' = [toast EXCEPT ![s] = <<"Error sharing file", "">>]
  /\ share' = [share EXCEPT ![s] = IdleShare]
  /\ shareEmail' = Set(shareEmail, s, "")
  /\ selectedFileId' = Set(selectedFileId, s, 0)
  /\ UNCHANGED <<table, version, fetching, lastShare>>

ShareFailed(s) ==
  /\ toast' = [toast EXCEPT ![s] = <<"Error sharing file", "">>]
  /\ share' = [share EXCEPT ![s] = IdleShare]
  /\ UNCHANGED <<table, version, shareEmail, selectedFileId, fetching,
                 lastShare>>

\* the Share button.  Index.tsx: up to the await of the read of shared_with.
\* part_000: supabase.sql is not a function of the client, so building the
\* update throws inside the try block and nothing is sent.
handleShare(s) ==
  /\ route[s] = "index"
  /\ selectedFileId[s] # 0 /\ shareEmail[s] # ""
  /\ share[s].pc = "idle"
  /\ shareCount < MaxShares
  /\ shareCount' = shareCount + 1
  /\ IF variant = "Index"
     THEN /\ share' = [share EXCEPT ![s] =
                [pc |-> "read", fileId |-> selectedFileId[s],
                 email |-> shareEmail[s], user |-> user[s],
                 updated |-> <<>>, readVer |-> 0]]
          /\ UNCHANGED <<table, version, shareEmail, selectedFileId,
                         fetching, lastShare, toast>>
     ELSE ShareFailed(s)
  /\ UNCHANGED <<variant, auth, storage, nextKey, route, mounted,
                 searchParams, navCount, user, files, selectedFile,
                 isUploading, loaded, checkUserPending, upload,
                 getFilesResult>>

updatedSharedWithDedup(current, email) ==
  IF email \in Range(OrEmpty(current)) THEN OrEmpty(current)
  ELSE Append(OrEmpty(current), email)

updatedSharedWithReplacing(current, email) == <<email>>

updatedSharedWithPrepending(current, email) == <<email>> \o OrEmpty(current)

\* [...(currentFile?.shared_with || []), shareEmail]
updatedSharedWith(current, email) == Append(OrEmpty(current), email)

\* the read of the current shared_with answers
ShareReadResolve(s) ==
  /\ share[s].pc = "read"
  /\ \/ ShareFailed(s)
     \/ /\ share' = [share EXCEPT
              ![s].pc = "write",
              ![s].updated =
                 updatedSharedWith(table[share[s].fileId].shared_with,
                                   share[s].email),
              ![s].readVer = version[share[s].fileId]]
        /\ UNCHANGED <<table, version, shareEmail, selectedFileId, fetching,
                       lastShare, toast>>
  /\ UNCHANGED <<variant, auth, storage, nextKey, route, mounted,
                 searchParams, navCount, user, files, selectedFile,
                 isUploading, loaded, checkUserPending, upload, shareCount,
                 getFilesResult>>

\* the write-back answers
ShareWriteResolve(s) ==
  /\ share[s].pc = "write"
  /\ \/ ShareFailed(s)
     \/ /\ table' = [table EXCEPT
              ![share[s].fileId].shared_with = Some(share[s].updated)]
        /\ version' = [version EXCEPT ![share[s].fileId] = @ + 1]
        /\ toast' = [toast EXCEPT ![s] = <<"Success", share[s].email>>]
        /\ shareEmail' = Set(shareEmail, s, "")
        /\ selectedFileId' = Set(selectedFileId, s, 0)
        /\ fetching' = [fetching EXCEPT ![s] =
              @ \cup fetchFilesOf(variant, share[s].user, DefaultParams)]
        /\ lastShare' = [lastShare EXCEPT ![s] =
              [fileId |-> share[s].fileId, email |-> share[s].email,
               updated |-> share[s].updated, readVer |-> share[s].readVer,
               writeVer |-> version[share[s].fileId] + 1]]
        /\ share' = [share EXCEPT ![s] = IdleShare]
  /\ UNCHANGED <<variant, auth, storage, nextKey, route, mounted,
                 searchParams, navCount, user, files, selectedFile,
                 isUploading, loaded, checkUserPending, upload, shareCount,
                 getFilesResult>>

(***************************************************************************)
(* The getFiles server action (part_001)                                   *)
(***************************************************************************)
getFiles(userId, email) ==
  /\ IF userId = "" \/ email = ""
     THEN getFilesResult' =
            [status |-> "throw", scoped |-> TRUE, id |-> userId,
             email |-> email, data |-> <<>>]
     ELSE \/ getFilesResult' =
               [status |-> "error", scoped |-> TRUE, id |-> userId,
                email |-> email, data |-> <<>>]
          \/ \E data \in QueryResults(
                  [scoped |-> TRUE, id |-> userId, email |-> email,
                   type |-> "", search |-> <<>>, sort |-> "created_at",
                   limit |-> 0], table) :
               getFilesResult' =
                 [status |-> "data", scoped |-> TRUE, id |-> userId,
                  email |-> email, data |-> data]
  /\ UNCHANGED <<variant, auth, store, route, mounted, searchParams,
                 navCount, component, toast, checkUserPending, fetching,
                 upload, share, shareCount, lastShare>>

(***************************************************************************)
(* Specifications                                                          *)
(***************************************************************************)
\* what the user of session s and the answers to its requests can do
Step(s) ==
  \/ Mount(s)
  \/ \E url \in URLS : SearchParamsChange(s, url)
  \/ CheckUserResolve(s)
  \/ handleSignOut(s)
  \/ \E op \in fetching[s] : FetchResolve(s, op)
  \/ \E f \in LocalFiles : handleFileChange(s, f)
  \/ handleUpload(s)
  \/ UploadStorageResolve(s)
  \/ UploadInsertResolve(s)
  \/ \E i \in 1..Len(files[s]) : SelectRow(s, i)
  \/ \E e \in EmailInputs : ShareEmailChange(s, e)
  \/ handleShare(s)
  \/ ShareReadResolve(s)
  \/ ShareWriteResolve(s)

Next == \E s \in Sessions : Step(s)

\* one session on either variant of the screen, signed in or not
Spec == Init /\ [][Next]_vars

InitShare ==
  /\ InitWith(InitTable, {"Index"}, {DefaultUrl}, Sessions)
  /\ \A s \in Sessions : auth[s] # NoUser
  /\ auth["s1"].id = "u1"

\* the steps of two users who open the screen and share files
StepShare(s) ==
  \/ Mount(s)
  \/ \E url \in URLS : SearchParamsChange(s, url)
  \/ CheckUserResolve(s)
  \/ \E op \in fetching[s] : FetchResolve(s, op)
  \/ \E i \in 1..Len(files[s]) : SelectRow(s, i)
  \/ \E e \in EmailInputs : ShareEmailChange(s, e)
  \/ handleShare(s)
  \/ ShareReadResolve(s)
  \/ ShareWriteResolve(s)

NextShare == \E s \in Sessions : StepShare(s)

\* two signed-in users on Index.tsx sharing the files they see
SpecShare == InitShare /\ [][NextShare]_vars

InitQuery == InitWith(QueryTable, Variants, {DefaultUrl}, {"s1"})

\* the steps of a user who opens the screen and changes the URL
StepQuery(s) ==
  \/ Mount(s)
  \/ \E url \in AllURLS : SearchParamsChange(s, url)
  \/ CheckUserResolve(s)
  \/ \E op \in fetching[s] : FetchResolve(s, op)

NextQuery ==
  \/ \E s \in Sessions : StepQuery(s)
  \/ \E userId \in {"", "u1", "u2"}, email \in {"", "a@x", "b@x"} :
       getFiles(userId, email)

\* the three file queries, over every URL of AllURLS
SpecQuery == InitQuery /\ [][NextQuery]_vars

InitUpload ==
  /\ InitWith(InitTable, Variants, {DefaultUrl}, {"s1"})
  /\ auth["s1"] # NoUser

\* the steps of a user who opens the screen and uploads
StepUpload(s) ==
  \/ Mount(s)
  \/ CheckUserResolve(s)
  \/ handleSignOut(s)
  \/ \E op \in fetching[s] : FetchResolve(s, op)
  \/ \E f \in LocalFiles : handleFileChange(s, f)
  \/ handleUpload(s)
  \/ UploadStorageResolve(s)
  \/ UploadInsertResolve(s)

NextUpload == \E s \in Sessions : StepUpload(s)

\* uploads whose remote calls are answered
FairSpec ==
  /\ InitUpload
  /\ [][NextUpload]_vars
  /\ \A s \in Sessions :
       WF_vars(UploadStorageResolve(s)) /\ WF_vars(UploadInsertResolve(s))

(***************************************************************************)
(* Claims                                                                  *)
(***************************************************************************)
Count(e, seq) == Cardinality({i \in DOMAIN seq : seq[i] = e})

InRange(limit) == limit.kind = "num" /\ limit.n >= 1 /\ limit.n <= MaxLimit

MatchCount(q) == Cardinality({i \in DOMAIN table : Matches(q, table[i])})

\* C1: every file query in flight is restricted to the rows of a resolved
\* user (a user id and an email, both present), and every row a file query
\* has returned is owned by the user it was made for or shared with that
\* user's email; getFiles never returns any other row either.
C1_QueriesScoped ==
  /\ \A s \in Sessions : \A op \in fetching[s] :
        op.query.scoped /\ op.query.id # "" /\ op.query.email # ""
  /\ \A s \in Sessions : \A i \in DOMAIN files[s] :
        /\ user[s].id # "" /\ user[s].email # ""
        /\ Visible(user[s].id, user[s].email, table[files[s][i]])
  /\ getFilesResult.status = "data" =>
        \A i \in DOMAIN getFilesResult.data :
           Visible(getFilesResult.id, getFilesResult.email,
                   getFilesResult.data[i])

\* C2: a handleShare whose write-back succeeds with no other write to the
\* file since its read leaves shared_with equal to the previous list (null
\* counting as empty) with the email appended at its end, duplicates kept.
C2_ShareAppends ==
  [][\A s \in Sessions :
       LET f == share[s].fileId IN
       ( /\ share[s].pc = "write"
         /\ share'[s].pc = "idle"
         /\ version'[f] = version[f] + 1
         /\ share[s].readVer = version[f] )
       => table'[f].shared_with =
            Some(Append(OrEmpty(table[f].shared_with), share[s].email))]_vars

\* the same email twice in a row: the second write to a file appended the
\* email the list already ended with, and the list now ends with it twice
C2_Witness ==
  \E s \in Sessions :
    LET a == lastShare[s] IN
    /\ a.fileId # 0
    /\ a.writeVer = a.readVer + 1
    /\ a.writeVer = version[a.fileId]
    /\ a.writeVer >= 2
    /\ table[a.fileId].shared_with = Some(a.updated)
    /\ Len(a.updated) >= 2
    /\ a.updated[Len(a.updated) - 1] = a.email
    /\ a.updated[Len(a.updated)] = a.email

\* C3 as stated: no step removes an email from a file's shared_with.
C3_OnlyGrown ==
  [][\A f \in DOMAIN table :
       Range(OrEmpty(table[f].shared_with))
         \subseteq Range(OrEmpty(table'[f].shared_with))]_vars

\* C3 as amended: shared_with changes only by the write-back of a
\* handleShare, which stores the list that handleShare read with its email
\* appended; when no other write to the file fell between that read and
\* the write, every email the file had is still there after the step.
C3_GrownUnlessOverlapped ==
  [][\A f \in DOMAIN table :
       table'[f].shared_with # table[f].shared_with =>
         \E s \in Sessions :
           /\ share[s].pc = "write" /\ share[s].fileId = f
           /\ share'[s].pc = "idle"
           /\ table'[f].shared_with = Some(share[s].updated)
           /\ share[s].readVer = version[f] =>
                /\ Range(OrEmpty(table[f].shared_with))
                     \subseteq Range(share[s].updated)
                /\ Len(share[s].updated)
                     = Len(OrEmpty(table[f].shared_with)) + 1]_vars

\* a share that no other write overlapped has grown a list that was not
\* empty
C3_Witness ==
  \E s \in Sessions :
    LET a == lastShare[s] IN
    /\ a.fileId # 0
    /\ a.writeVer = a.readVer + 1
    /\ Len(a.updated) >= 2
    /\ table[a.fileId].shared_with = Some(a.updated)

\* C4: of two successful shares of different emails on one file, written
\* one right after the other, the later being the last write to the file:
\* if the later one read what the earlier one wrote, the list ends with
\* both emails; if both read the same value before either wrote, the list
\* is that value with the later email only, the earlier append being lost.
C4_LastWriterWins ==
  \A s, t \in Sessions :
    LET a == lastShare[s]
        b == lastShare[t]
    IN ( /\ s # t
         /\ a.fileId # 0 /\ b.fileId = a.fileId
         /\ a.email # b.email
         /\ b.writeVer = a.writeVer + 1
         /\ b.writeVer = version[a.fileId] )
       => /\ b.readVer = a.writeVer =>
               table[a.fileId].shared_with
                 = Some(Append(a.updated, b.email))
          /\ b.readVer = a.readVer =>
               /\ table[a.fileId].shared_with = Some(b.updated)
               /\ Count(a.email, b.updated) = Count(a.email, a.updated) - 1
               /\ Len(b.updated) = Len(a.updated)

\* both shares have reported success and the earlier email is not in the
\* list
C4_Witness ==
  \E s, t \in Sessions :
    LET a == lastShare[s]
        b == lastShare[t]
    IN /\ s # t
       /\ a.fileId # 0 /\ b.fileId = a.fileId
       /\ a.email # b.email
       /\ b.writeVer = a.writeVer + 1
       /\ b.writeVer = version[a.fileId]
       /\ b.readVer = a.readVer
       /\ toast[s] = <<"Success", a.email>>
       /\ toast[t] = <<"Success", b.email>>
       /\ a.email \notin Range(OrEmpty(table[a.fileId].shared_with))
       /\ b.email \in Range(OrEmpty(table[a.fileId].shared_with))

\* C5: every row of the files table refers to an object that is in the
\* storage, and a metadata insert is in flight only for a key whose object
\* has been written.
C5_RowsHaveObjects ==
  /\ \A i \in DOMAIN table : table[i].public_url[2] \in storage
  /\ \A s \in Sessions :
        upload[s].pc = "insert" => upload[s].key \in storage

\* an upload has failed at its storage write (the error is notified, no
\* row was added) and another state holds an uploaded row; here: the row
C5_Witness ==
  /\ Len(table) > Len(InitTable)
  /\ table[Len(table)].public_url[2] \in storage
  /\ table[Len(table)].public_url[2] \notin StoredKeys(InitTable)

\* C6: isUploading is true only while a handleUpload is in flight, and once
\* set it is cleared again, whichever way the upload ends.
C6_BusyFlagCleared ==
  \A s \in Sessions :
    /\ [](isUploading[s] => upload[s].pc # "idle")
    /\ [](isUploading[s] => <>(~isUploading[s]))

\* an upload has ended in an error while the screen is mounted
C6_Witness ==
  \E s \in Sessions :
    /\ route[s] = "index"
    /\ toast[s] = <<"Error uploading file", "">>
    /\ upload[s].pc = "idle"
    /\ ~isUploading[s]

\* C7: the sort column of every query is one of created_at, filename and
\* type, any other requested column being replaced by created_at; the list
\* loaded for such a request is one the same request with the default key
\* can return.
C7_SortAllowListed ==
  \A s \in Sessions :
    /\ \A op \in fetching[s] :
          /\ op.query.sort \in allowedSortColumns
          /\ op.params.sortBy \notin allowedSortColumns
               => op.query.sort = "created_at"
    /\ ( loaded[s].issued
         /\ loaded[s].params.sortBy \notin allowedSortColumns )
       => /\ IsOrdered([i \in DOMAIN files[s] |-> table[files[s][i]]],
                       "created_at")
          /\ \E data \in QueryResults(
                  [loaded[s].query EXCEPT !.sort = "created_at"], table) :
               files[s] = Ids(data)

\* a list of several rows loaded for the sort key user_id
C7_Witness ==
  \E s \in Sessions :
    /\ loaded[s].issued
    /\ loaded[s].params.sortBy = "user_id"
    /\ Len(files[s]) >= 3

\* C8: a query carries a limit exactly when the requested limit is a number
\* in 1..100, and then that number; the list loaded has the smaller of the
\* limit and the number of matching rows, and all matching rows when the
\* request carries no limit or one out of range.
C8_LimitInRangeOrNone ==
  \A s \in Sessions :
    /\ \A op \in fetching[s] :
          op.query.limit =
            IF InRange(op.params.limit) THEN op.params.limit.n ELSE 0
    /\ loaded[s].issued =>
          LET l == loaded[s].params.limit
              m == MatchCount(loaded[s].query)
          IN Len(files[s]) =
               IF InRange(l) /\ l.n < m THEN l.n ELSE m

\* the limit 2 has cut a list of three matching rows
C8_Witness ==
  \E s \in Sessions :
    /\ loaded[s].issued
    /\ loaded[s].params.limit = Num(2)
    /\ MatchCount(loaded[s].query) = 3
    /\ Len(files[s]) = 2

\* C9: a handleShare that fails (at its read, at its write-back, or in
\* part_000 while building the update) raises the error notification and
\* leaves the share target, the email input and the pending fetches as
\* they were; a successful one clears the target and the input.
C9_FailureKeepsTarget ==
  [][\A s \in Sessions :
       /\ ( \/ /\ share[s].pc # "idle" /\ share'[s].pc = "idle"
               /\ table' = table
            \/ /\ variant = "part_000" /\ shareCount' # shareCount
               /\ selectedFileId[s] # 0 /\ shareEmail[s] # "" )
          => /\ toast'[s] = <<"Error sharing file", "">>
             /\ selectedFileId'[s] = selectedFileId[s]
             /\ shareEmail'[s] = shareEmail[s]
             /\ fetching'[s] = fetching[s]
             /\ files'[s] = files[s]
       /\ ( /\ share[s].pc = "write" /\ share'[s].pc = "idle"
            /\ table' # table /\ route[s] = "index" )
          => selectedFileId'[s] = 0 /\ shareEmail'[s] = ""]_vars

\* a share of Index.tsx has failed and the user still has the target and
\* the email
C9_Witness ==
  \E s \in Sessions :
    /\ variant = "Index"
    /\ toast[s] = <<"Error sharing file", "">>
    /\ share[s].pc = "idle"
    /\ selectedFileId[s] # 0
    /\ shareEmail[s] # ""
    /\ shareCount > 0

\* C10: once Index.tsx is mounted, its session check has resolved to a
\* user with an id and an email, nothing is in flight, no error was
\* notified and the user has neither changed the URL, uploaded nor shared,
\* the list holds an answer to the query of the URL's parameters.
C10_MountLoadsList ==
  \A s \in Sessions :
    ( /\ variant = "Index"
      /\ route[s] = "index" /\ mounted[s]
      /\ ~checkUserPending[s]
      /\ user[s].id # "" /\ user[s].email # ""
      /\ fetching[s] = {}
      /\ toast[s] = NoToast
      /\ navCount[s] = 0 /\ shareCount = 0 /\ nextKey = 0 )
    => /\ loaded[s].issued
       /\ loaded[s].params = EffectParams(searchParams[s])
       /\ \E data \in QueryResults(loaded[s].query, table) :
            files[s] = Ids(data)

====
